---- MODULE Spec2Model ----
(***************************************************************************)
(* Model of EduMenges/tcp: the text compiler (text_to_midi.rs), the track  *)
(* encoder (midi_action.rs), the time clock (time_state.rs) and the        *)
(* playback loop (play.rs).                                                *)
(*                                                                         *)
(* Characters are one-character strings; the three private marker          *)
(* characters of Sheet are written by their code points, since the module  *)
(* is ASCII.  A text is a sequence of characters.                          *)
(***************************************************************************)
EXTENDS Integers, Sequences, FiniteSets, TLC

VARIABLES
    \* ---- Sheet (text_to_midi.rs) ----
    text,           \* Sheet.text, the raw input
    sheet_bpm,      \* Sheet.bpm, the tempo handed to Sheet::new
    folded,         \* the local `text` of proccess_text (result of map_substring_to_char)
    pos,            \* position of the chars() loop of proccess_text in folded
    current_state,  \* Sheet.current_state
    states,         \* Sheet.states
    ret,            \* the vector process builds
    ridx,           \* position of the `for actual_state in self.states` loop
    pc              \* where the compilation stands

sheetVars == <<text, sheet_bpm, folded, pos, current_state, states, ret, ridx, pc>>

VARIABLES
    \* ---- MidiAction::as_track (midi_action.rs) ----
    slice,          \* the actions handed to as_track
    track,          \* the Track being built
    apos,           \* position of the `for action in slice` loop
    tpc             \* where as_track stands

trackVars == <<slice, track, apos, tpc>>

VARIABLES
    \* ---- play_file (play.rs) ----
    file,           \* the Smf handed to play_file: [timing, tracks]
    device,         \* what the MIDI backend has been asked to do, in order
    buf,            \* the local buf
    time_state,     \* the local time_state
    waits,          \* the sleeps of the loop, in order: [event, micros]
    epos,           \* position of the `for event in &file.tracks[0]` loop
    result,         \* what play_file returned
    ppc             \* where play_file stands

playVars == <<file, device, buf, time_state, waits, epos, result, ppc>>

VARIABLES
    \* ---- map_substring_to_char applied to its own result ----
    refolded        \* map_substring_to_char of a Sheet whose text is `folded`

foldVars == <<refolded>>

VARIABLES
    \* ---- TimeState used on its own (time_state.rs) ----
    bpm_arg,        \* the bpm set_mspqn_from_bpm was last called with; 0 when
                    \* the clock was changed otherwise since, or never set
    cpc             \* where the clock stands: idle, default, set, panic

clockVars == <<bpm_arg, cpc>>

vars == <<sheetVars, foldVars, trackVars, playVars, clockVars>>

(***************************************************************************)
(* Bounds                                                                  *)
(***************************************************************************)
\* every text of at most MaxLen characters over Alphabet is compiled
MaxLen == 2
\* every action sequence of at most MaxActions actions over ActionAlphabet is encoded
MaxActions == 3
\* every track of at most MaxEvents events over EventAlphabet is played
MaxEvents == 3

(***************************************************************************)
(* note: text_to_midi.rs declares its own Note enum                        *)
(***************************************************************************)
PitchNotes == {"Do", "Re", "Mi", "Fa", "Sol", "La", "Si"}

NoNote == "None"

\* Note::from_char; NoNote stands for Option::None
from_char(ch) ==
    CASE ch \in {"A", "a"} -> "La"
      [] ch \in {"B", "b"} -> "Si"
      [] ch \in {"C", "c"} -> "Do"
      [] ch \in {"D", "d"} -> "Re"
      [] ch \in {"E", "e"} -> "Mi"
      [] ch \in {"F", "f"} -> "Fa"
      [] ch \in {"G", "g"} -> "Sol"
      [] ch = " " -> "Pause"
      [] OTHER -> NoNote

\* `note as u8` for the enum of text_to_midi.rs: #[repr(u8)] with no explicit
\* discriminants, so the variants count from 0 in declaration order
NoteAsU8(note) ==
    CASE note = "Do" -> 0
      [] note = "Re" -> 1
      [] note = "Mi" -> 2
      [] note = "Fa" -> 3
      [] note = "Sol" -> 4
      [] note = "La" -> 5
      [] note = "Si" -> 6
      [] note = "Pause" -> 7

\* the discriminants of the Note enum of note.rs
NoteDiscriminant(note) ==
    CASE note = "Do" -> 0
      [] note = "Re" -> 2
      [] note = "Mi" -> 4
      [] note = "Fa" -> 5
      [] note = "Sol" -> 7
      [] note = "La" -> 9
      [] note = "Si" -> 11
      [] note = "Pause" -> 13

\* Note::to_midi of note.rs (u8 arithmetic)
to_midi(note, octave) == (NoteDiscriminant(note) + 12 * (1 + octave)) % 256

(***************************************************************************)
(* State                                                                   *)
(***************************************************************************)
MAX_OCTAVE == 12
DEFAULT_OCTAVE == 4
DEFAULT_VOLUME == 100
MAX_VOLUME == 16383
DEFAULT_BPM == 80
MAX_BPM == 255
TELEPHONE == 125

\* impl Default for State
DefaultState ==
    [bpm |-> DEFAULT_BPM, instrument |-> 0, octave |-> DEFAULT_OCTAVE,
     volume |-> DEFAULT_VOLUME, note |-> "Do"]

(***************************************************************************)
(* Actions.  text_to_midi.rs builds MIDIaction values, midi_action.rs       *)
(* encodes MidiAction values; the two enums share the three change         *)
(* variants and differ in the others.                                      *)
(***************************************************************************)
ChangeBPM(b) == [type |-> "ChangeBPM", value |-> b]
ChangeInstrument(i) == [type |-> "ChangeInstrument", value |-> i]
ChangeVolume(v) == [type |-> "ChangeVolume", value |-> v]

\* MIDIaction::PlayNote { bpm, note }, MIDIaction::Pause(bpm), MIDIaction::EndTrack
MIDIaction_PlayNote(bpm, note) == [type |-> "PlayNote", bpm |-> bpm, note |-> note]
MIDIaction_Pause(bpm) == [type |-> "Pause", bpm |-> bpm]
MIDIaction_EndTrack == [type |-> "EndTrack"]

\* MidiAction::PlayNote(u8), MidiAction::Pause
MidiAction_PlayNote(note) == [type |-> "PlayNote", value |-> note]
MidiAction_Pause == [type |-> "Pause"]

(***************************************************************************)
(* Sheet::map_substring_to_char                                            *)
(***************************************************************************)
DEFAULT_R_PLUS == "U+6771"
DEFAULT_R_MINUS == "U+4E16"
DEFAULT_BPM_PLUS == "U+00DF"

VowelToggles == {"o", "O", "I", "i", "u", "U"}

IsPrefix(p, s) == Len(p) <= Len(s) /\ SubSeq(s, 1, Len(p)) = p

\* str::replacen(from, to, 1): only the first match becomes `to`
RECURSIVE replace_first(_, _, _)
replace_first(s, from, to) ==
    IF s = <<>> THEN <<>>
    ELSE IF IsPrefix(from, s)
         THEN <<to>> \o SubSeq(s, Len(from) + 1, Len(s))
         ELSE <<Head(s)>> \o replace_first(Tail(s), from, to)

\* str::replace: every non-overlapping match of `from`, left to right, becomes `to`
RECURSIVE replace(_, _, _)
replace(s, from, to) ==
    IF s = <<>> THEN <<>>
    ELSE IF IsPrefix(from, s)
         THEN <<to>> \o replace(SubSeq(s, Len(from) + 1, Len(s)), from, to)
         ELSE <<Head(s)>> \o replace(Tail(s), from, to)

\* the three chained replacements (lines 201-206)
fold_tokens(s) ==
    replace(replace(replace(s, <<"B", "P", "M", "+">>, DEFAULT_BPM_PLUS),
                    <<"R", "+">>, DEFAULT_R_PLUS),
            <<"R", "-">>, DEFAULT_R_MINUS)

\* the loop with prev_char following the character written, not the one read
RECURSIVE echo_vowels_of_output(_, _)
echo_vowels_of_output(s, prev) ==
    IF s = <<>> THEN <<>>
    ELSE IF from_char(prev) # NoNote /\ Head(s) \in VowelToggles
         THEN <<prev>> \o echo_vowels_of_output(Tail(s), prev)
         ELSE <<Head(s)>> \o echo_vowels_of_output(Tail(s), Head(s))

\* the loop without the test for a vowel toggle: any character after a note
\* character is overwritten
RECURSIVE echo_after_note(_, _)
echo_after_note(s, prev) ==
    IF s = <<>> THEN <<>>
    ELSE IF from_char(prev) # NoNote
         THEN <<prev>> \o echo_after_note(Tail(s), Head(s))
         ELSE <<Head(s)>> \o echo_after_note(Tail(s), Head(s))

\* the loop of lines 208-221; prev is prev_char ("NUL" stands for '\0')
RECURSIVE echo_vowels(_, _)
echo_vowels(s, prev) ==
    IF s = <<>> THEN <<>>
    ELSE IF from_char(prev) # NoNote /\ Head(s) \in VowelToggles
         THEN <<prev>> \o echo_vowels(Tail(s), Head(s))
         ELSE <<Head(s)>> \o echo_vowels(Tail(s), Head(s))

\* map_substring_to_char without the loop of lines 208-221
map_substring_without_echo(s) == fold_tokens(s)

\* map_substring_to_char: lines 200-224
map_substring_to_char(s) == echo_vowels(fold_tokens(s), "NUL")

(***************************************************************************)
(* Sheet::parse_char                                                       *)
(***************************************************************************)
Min(a, b) == IF a < b THEN a ELSE b

\* the values the three random draws are taken from
RandNotes == PitchNotes
RandInstruments == {0, 1, 125, 127}
RandBpms == {1, 80, 254}

\* parse_char panics at states.last().unwrap() (line 262)
parse_char_panics(ch, sts) == from_char(ch) = NoNote /\ ch \in VowelToggles /\ sts = <<>>

\* `volume * 2` (u16, lines 246-250) and `octave + 1` (u8, line 270) leave
\* their type: a panic with overflow checks, a wrapped value without
parse_char_overflows(cs, ch) ==
    \/ ch = "+" /\ cs.volume * 2 > 65535
    \/ ch = DEFAULT_R_PLUS /\ cs.octave + 1 > 255

\* '+' as the comment of line 245 words it: back to the default volume
volume_up_reset(v) ==
    IF (v * 2) % 65536 > MAX_VOLUME THEN DEFAULT_VOLUME ELSE (v * 2) % 65536

\* '+', lines 246-252
volume_up(v) ==
    IF (v * 2) % 65536 > MAX_VOLUME THEN MAX_VOLUME ELSE (v * 2) % 65536

\* R+ without the comparison against MAX_OCTAVE
octave_up_unchecked(o) == (o + 1) % 256

\* R+, lines 270-275
octave_up(o) ==
    LET new_octave == (o + 1) % 256
    IN  IF new_octave > MAX_OCTAVE THEN DEFAULT_OCTAVE ELSE new_octave

\* R- with wrapping_sub in place of saturating_sub
octave_down_wrapping(o) == (o + 255) % 256

\* R-, line 281: u8::saturating_sub(1)
octave_down(o) == IF o = 0 THEN 0 ELSE o - 1

\* BPM+, line 286: u8::saturating_add(80)
bpm_up(b) == Min(b + 80, 255)

\* the else branch leaving the note of the previous character in place
keep_note(cs) == cs

\* line 242: self.current_state.note = None
clear_note(cs) == [cs EXCEPT !.note = NoNote]

\* current_state when the final push of line 311 is reached, before any
\* vowel stash; rn, ri, rb are the values the random source yields
parse_char_state(cs, ch, rn, ri, rb) ==
    IF from_char(ch) # NoNote
    THEN [cs EXCEPT !.note = from_char(ch)]
    ELSE LET c == clear_note(cs) IN
         CASE ch = "+" -> [c EXCEPT !.volume = volume_up(c.volume)]
           [] ch = "-" -> [c EXCEPT !.volume = DEFAULT_VOLUME]
           [] ch \in VowelToggles ->
                [c EXCEPT !.instrument = TELEPHONE, !.note = "Do"]
           [] ch = DEFAULT_R_PLUS -> [c EXCEPT !.octave = octave_up(c.octave)]
           [] ch = DEFAULT_R_MINUS -> [c EXCEPT !.octave = octave_down(c.octave)]
           [] ch = DEFAULT_BPM_PLUS -> [c EXCEPT !.bpm = bpm_up(c.bpm)]
           [] ch = "?" -> [c EXCEPT !.note = rn]
           [] ch = "\n" -> [c EXCEPT !.instrument = ri]
           [] ch = ";" -> [c EXCEPT !.bpm = rb]
           [] OTHER -> c

\* the vowel arm without `self.current_state = aux_state`: line 311 pushes the
\* telephone state a second time
parse_char_pushed_no_restore(cs, ch, sts, rn, ri, rb) ==
    IF from_char(ch) = NoNote /\ ch \in VowelToggles
    THEN <<parse_char_state(cs, ch, rn, ri, rb), parse_char_state(cs, ch, rn, ri, rb)>>
    ELSE <<parse_char_state(cs, ch, rn, ri, rb)>>

\* the snapshots one call of parse_char appends (lines 262-264 and 311)
parse_char_pushed(cs, ch, sts, rn, ri, rb) ==
    IF from_char(ch) = NoNote /\ ch \in VowelToggles
    THEN <<parse_char_state(cs, ch, rn, ri, rb), sts[Len(sts)]>>
    ELSE <<parse_char_state(cs, ch, rn, ri, rb)>>

\* current_state when parse_char returns
parse_char_current(cs, ch, sts, rn, ri, rb) ==
    IF from_char(ch) = NoNote /\ ch \in VowelToggles
    THEN sts[Len(sts)]
    ELSE parse_char_state(cs, ch, rn, ri, rb)

(***************************************************************************)
(* Sheet::process                                                          *)
(***************************************************************************)
\* the start actions taken from the default state instead of the first snapshot
StartActionsOfDefault(s) ==
    <<ChangeBPM(DEFAULT_BPM), ChangeInstrument(0), ChangeVolume(DEFAULT_VOLUME)>>

\* lines 165-167
StartActions(s) ==
    <<ChangeBPM(s.bpm), ChangeInstrument(s.instrument), ChangeVolume(s.volume)>>

\* the pitch of line 185 (u8 arithmetic)
process_pitch(note, octave) == (NoteAsU8(note) + 12 * (octave + 1)) % 256

\* the note arm without its `else`: a change action and the note are both pushed
StepActionsAlsoNote(cur, actual) ==
    (IF actual.bpm # cur.bpm THEN <<ChangeBPM(actual.bpm)>>
     ELSE IF actual.instrument # cur.instrument
          THEN <<ChangeInstrument(actual.instrument)>>
     ELSE IF actual.volume # cur.volume THEN <<ChangeVolume(actual.volume)>>
     ELSE <<>>)
    \o (IF actual.note = NoNote THEN <<>>
        ELSE IF actual.note = "Pause" THEN <<MIDIaction_Pause(actual.bpm)>>
        ELSE <<MIDIaction_PlayNote(actual.bpm,
                                   process_pitch(actual.note, actual.octave))>>)

\* lines 170-191: what one iteration pushes
StepActions(cur, actual) ==
    IF actual.bpm # cur.bpm THEN <<ChangeBPM(actual.bpm)>>
    ELSE IF actual.instrument # cur.instrument
         THEN <<ChangeInstrument(actual.instrument)>>
    ELSE IF actual.volume # cur.volume THEN <<ChangeVolume(actual.volume)>>
    ELSE IF actual.note = NoNote THEN <<>>
    ELSE IF actual.note = "Pause" THEN <<MIDIaction_Pause(actual.bpm)>>
    ELSE <<MIDIaction_PlayNote(actual.bpm, process_pitch(actual.note, actual.octave))>>

\* the loop comparing every snapshot with the first one
keep_current(cur, actual) == cur

\* line 192: self.current_state = actual_state
next_current(cur, actual) == actual

\* line 195
EndActions == <<MIDIaction_EndTrack>>

(***************************************************************************)
(* Inputs                                                                  *)
(***************************************************************************)
Alphabet ==
    {"A", "C", "D", " ", "+", "-", "o", "R", "?", "\n", ";", "x",
     DEFAULT_BPM_PLUS, DEFAULT_R_MINUS}

RECURSIVE TextsOfLen(_)
TextsOfLen(n) ==
    IF n = 0 THEN {<<>>}
    ELSE {Append(t, c) : t \in TextsOfLen(n - 1), c \in Alphabet}

\* the texts of the repository's tests and of the documented scenarios
ScenarioTexts ==
    { <<"B", "P", "M", "+", "R", "+", "R", "-">>,
      <<"C", "D", "E", "F", "G", "A", "B">>,
      <<"c", "D", "e", "F", "g", "A", "b">>,
      <<"A", "o">>,
      <<"C", "i", "i", "o", "u">>,
      <<"C", "+", "D", "+", "E", "+">>,
      <<"+", "+", "+", "+", "+", "+", "+", "+", "+">>,
      <<"R", "+", "R", "+", "R", "+", "R", "+", "R", "+", "R", "+", "R", "+",
        "R", "+", "R", "+">>,
      <<"R", "-", "R", "-", "R", "-", "R", "-", "R", "-">>,
      <<"B", "P", "M", "+", "B", "P", "M", "+", "B", "P", "M", "+">>,
      <<"A", "5">>,
      <<"A", "B", "P", "M", "+", "+">>,
      <<"A", "o", "o">>,
      <<"R", "+", "R", "+", "R", "+", "R", "+", "R", "+", "R", "+", "C">> }

Texts == UNION {TextsOfLen(n) : n \in 0..MaxLen} \cup ScenarioTexts

StartBpms == {DEFAULT_BPM, 120}

(***************************************************************************)
(* Sheet: the compilation as a state machine                               *)
(***************************************************************************)
IdleSheet ==
    /\ text = <<>>
    /\ sheet_bpm = DEFAULT_BPM
    /\ folded = <<>>
    /\ pos = 0
    /\ current_state = DefaultState
    /\ states = <<>>
    /\ ret = <<>>
    /\ ridx = 0
    /\ pc = "idle"

IdleFold == refolded = <<>>

IdleClock == bpm_arg = 0 /\ cpc = "idle"

\* Sheet::new (lines 151-158)
InitSheet ==
    /\ text \in Texts
    /\ sheet_bpm \in StartBpms
    /\ folded = <<>>
    /\ pos = 0
    /\ current_state = DefaultState
    /\ states = <<>>
    /\ ret = <<>>
    /\ ridx = 0
    /\ pc = "new"

\* proccess_text, line 227
MapSubstring ==
    /\ pc = "new"
    /\ folded' = map_substring_to_char(text)
    /\ pos' = 1
    /\ pc' = "scan"
    /\ UNCHANGED <<text, sheet_bpm, current_state, states, ret, ridx>>
    /\ UNCHANGED <<foldVars, trackVars, playVars, clockVars>>

\* proccess_text, one iteration of lines 229-231
ParseChar ==
    /\ pc = "scan"
    /\ pos <= Len(folded)
    /\ IF parse_char_panics(folded[pos], states)
       THEN /\ pc' = "panic"
            /\ current_state' =
                  [current_state EXCEPT !.instrument = TELEPHONE, !.note = "Do"]
            /\ UNCHANGED <<states, pos>>
       ELSE \E checked \in BOOLEAN :
            IF checked /\ parse_char_overflows(current_state, folded[pos])
            THEN /\ pc' = "panic"
                 /\ current_state' = [current_state EXCEPT !.note = NoNote]
                 /\ UNCHANGED <<states, pos>>
            ELSE
            \E rn \in RandNotes, ri \in RandInstruments, rb \in RandBpms :
            /\ states' = states \o
                  parse_char_pushed(current_state, folded[pos], states, rn, ri, rb)
            /\ current_state' =
                  parse_char_current(current_state, folded[pos], states, rn, ri, rb)
            /\ pos' = pos + 1
            /\ pc' = pc
    /\ UNCHANGED <<text, sheet_bpm, folded, ret, ridx>>
    /\ UNCHANGED <<foldVars, trackVars, playVars, clockVars>>

\* process, lines 162-167
ProcessStart ==
    /\ pc = "scan"
    /\ pos > Len(folded)
    /\ IF states = <<>>
       THEN /\ pc' = "panic"
            /\ UNCHANGED <<current_state, ret, ridx>>
       ELSE /\ current_state' = states[1]
            /\ ret' = StartActions(states[1])
            /\ ridx' = 1
            /\ pc' = "reduce"
    /\ UNCHANGED <<text, sheet_bpm, folded, pos, states>>
    /\ UNCHANGED <<foldVars, trackVars, playVars, clockVars>>

\* process, one iteration of lines 169-193
ProcessStep ==
    /\ pc = "reduce"
    /\ ridx <= Len(states)
    /\ ret' = ret \o StepActions(current_state, states[ridx])
    /\ current_state' = next_current(current_state, states[ridx])
    /\ ridx' = ridx + 1
    /\ UNCHANGED <<text, sheet_bpm, folded, pos, states, pc>>
    /\ UNCHANGED <<foldVars, trackVars, playVars, clockVars>>

\* process, lines 195-197
ProcessEnd ==
    /\ pc = "reduce"
    /\ ridx > Len(states)
    /\ ret' = ret \o EndActions
    /\ pc' = "done"
    /\ UNCHANGED <<text, sheet_bpm, folded, pos, current_state, states, ridx>>
    /\ UNCHANGED <<foldVars, trackVars, playVars, clockVars>>

NextSheet == MapSubstring \/ ParseChar \/ ProcessStart \/ ProcessStep \/ ProcessEnd

(***************************************************************************)
(* map_substring_to_char on its own: a Sheet is built on a text, the text  *)
(* is folded, and a second Sheet built on the result is folded again       *)
(***************************************************************************)
MaxFoldLen == 4

\* the letters of the three tokens, a note letter that is also a token
\* letter (B), a vowel toggle and the pause character
FoldAlphabet == {"B", "P", "M", "+", "R", "-", "o", " "}

RECURSIVE FoldTextsOfLen(_)
FoldTextsOfLen(n) ==
    IF n = 0 THEN {<<>>}
    ELSE {Append(t, c) : t \in FoldTextsOfLen(n - 1), c \in FoldAlphabet}

\* the inputs of the four tests of lines 319-361
TestTexts ==
    { <<";", " ", "\n", "a", "s", "B", "P", "M", "+", " ", "?", "!", ";", "-", "+">>,
      <<"A", "a", "B", "b", "C", "c", "D", "d", "E", "e", "F", "f", "G", "g">>,
      <<"B", "P", "M", "+", "R", "+", "R", "-">>,
      <<"O", "o", "I", "i", "U", "u", "A", "i", "B", "I", "C", "u", "D", "U",
        "E", "o", "F", "o">> }

\* a vowel toggle between B and "PM+"
EchoTexts == { <<"B", "o", "P", "M", "+">>, <<"A", "B", "u", "P", "M", "+", "o">> }

FoldTexts ==
    UNION {FoldTextsOfLen(n) : n \in 0..MaxFoldLen} \cup TestTexts \cup EchoTexts

\* Sheet::new (lines 151-158) on a text of FoldTexts
InitFold ==
    /\ text \in FoldTexts
    /\ sheet_bpm = DEFAULT_BPM
    /\ folded = <<>>
    /\ pos = 0
    /\ current_state = DefaultState
    /\ states = <<>>
    /\ ret = <<>>
    /\ ridx = 0
    /\ pc = "new"
    /\ refolded = <<>>

\* Sheet::new(bpm, folded).map_substring_to_char()
MapSubstringAgain ==
    /\ pc = "scan"
    /\ refolded' = map_substring_to_char(folded)
    /\ pc' = "again"
    /\ UNCHANGED <<text, sheet_bpm, folded, pos, current_state, states, ret, ridx>>
    /\ UNCHANGED <<trackVars, playVars, clockVars>>

NextFold == MapSubstring \/ MapSubstringAgain

(***************************************************************************)
(* midly number types: from_int_lossy keeps the low bits                   *)
(***************************************************************************)
u4(x) == x % 16
u7(x) == x % 128
u15(x) == x % 32768
u24(x) == x % 16777216
u28(x) == x % 268435456

(***************************************************************************)
(* Track events: [delta, kind, msg, channel, data]                         *)
(***************************************************************************)
MetaEvent(delta, msg, data) ==
    [delta |-> delta, kind |-> "Meta", msg |-> msg, channel |-> 0, data |-> data]

MidiEvent(delta, channel, msg, data) ==
    [delta |-> delta, kind |-> "Midi", msg |-> msg, channel |-> channel, data |-> data]

(***************************************************************************)
(* TimeState::mspqn_from_bpm (time_state.rs)                               *)
(***************************************************************************)
ONE_MINUTE_IN_MICROSECONDS == 60000000

\* `bpm * 4` is u16 arithmetic: it overflows from bpm = 16384 on, which panics
\* in a build with overflow checks and wraps in one without
mspqn_bpm_overflows(bpm) == bpm * 4 > 65535

\* the divisor `(bpm * 4) as u32` when the multiplication did not panic
mspqn_divisor(bpm) == (bpm * 4) % 65536

\* `ONE_MINUTE_IN_MICROSECONDS * denominator` is u32 arithmetic: it overflows
\* from denominator = 72 on (60,000,000 * 72 > 2^32 - 1)
mspqn_den_overflows(denominator) == denominator > 71

\* mspqn_from_bpm dividing by bpm alone
mspqn_from_bpm_per_beat(bpm, denominator) ==
    u24((ONE_MINUTE_IN_MICROSECONDS * denominator) \div (bpm % 65536))

\* the value returned when nothing panicked, for the denominators up to 32
\* (the product then stays below 2^31, so no reduction modulo 2^32 applies)
mspqn_from_bpm(bpm, denominator) ==
    u24((ONE_MINUTE_IN_MICROSECONDS * denominator) \div mspqn_divisor(bpm))

(***************************************************************************)
(* MidiAction (midi_action.rs)                                             *)
(***************************************************************************)
D_CHANNEL == u4(0)
D_VELOCITY == u7(127 \div 2)
INSTANT == u28(0)
D_TPQN == u15(480)
VOLUME_CONTROLLER == 7
PAUSE_CONTROLLER == 123

D_TIME_SIGNATURE == <<4, 2, 24, 8>>
\* KeySignature(0, false): no sharps or flats, major
D_KEY_SIGNATURE == <<0, 0>>
\* b"tcp_out"
TRACK_NAME == <<116, 99, 112, 95, 111, 117, 116>>

TO_BE_ADDED ==
    << <<"TrackName", TRACK_NAME>>,
       <<"TimeSignature", D_TIME_SIGNATURE>>,
       <<"KeySignature", D_KEY_SIGNATURE>>,
       <<"MidiPort", <<u7(0)>> >> >>

\* add_beggining: the events it pushes
add_beggining ==
    [i \in 1..Len(TO_BE_ADDED) |->
        MetaEvent(INSTANT, TO_BE_ADDED[i][1], TO_BE_ADDED[i][2])]

\* add_end with the end-of-track event at no delta
add_end_instant == <<MetaEvent(INSTANT, "EndOfTrack", <<>>)>>

\* add_end: the events it pushes
add_end == <<MetaEvent(u28(1), "EndOfTrack", <<>>)>>

\* quarter_note_delta converting to u8, as its comment (line 98) words it
quarter_note_delta_as_u8 == u28(D_TPQN % 256)

\* quarter_note_delta (lines 100-102)
quarter_note_delta == u28(D_TPQN)

\* push_as_event panics for ChangeBPM(0): the division of mspqn_from_bpm
push_as_event_panics(action) ==
    action.type = "ChangeBPM" /\ mspqn_divisor(action.value) = 0

\* push_as_event may panic on the overflow of `bpm * 4` (overflow checks on)
push_as_event_may_overflow(action) ==
    action.type = "ChangeBPM" /\ mspqn_bpm_overflows(action.value)

\* the PlayNote arm without its second push: the note is never released
play_note_without_off(note) ==
    << MidiEvent(INSTANT, D_CHANNEL, "NoteOn", <<u7(note), D_VELOCITY>>) >>

\* the events of the PlayNote arm (lines 107-128)
play_note(note) ==
    << MidiEvent(INSTANT, D_CHANNEL, "NoteOn", <<u7(note), D_VELOCITY>>),
       MidiEvent(quarter_note_delta, D_CHANNEL, "NoteOff", <<u7(note), D_VELOCITY>>) >>

\* the program-change event with the program counted from 1
program_change_one_based(instrument) ==
    MidiEvent(INSTANT, D_CHANNEL, "ProgramChange", <<u7(instrument + 1)>>)

\* the event of the ChangeInstrument arm (lines 129-139)
program_change(instrument) ==
    MidiEvent(INSTANT, D_CHANNEL, "ProgramChange", <<u7(instrument)>>)

\* push_as_event: the events it pushes when it does not panic
push_as_event(action) ==
    CASE action.type = "PlayNote" -> play_note(action.value)
      [] action.type = "ChangeInstrument" -> << program_change(action.value) >>
      [] action.type = "ChangeVolume" ->
           << MidiEvent(INSTANT, D_CHANNEL, "Controller",
                        <<u7(VOLUME_CONTROLLER), u7(action.value % 256)>>) >>
      [] action.type = "Pause" ->
           << MidiEvent(INSTANT, D_CHANNEL, "Controller", <<u7(PAUSE_CONTROLLER), u7(0)>>),
              MidiEvent(quarter_note_delta, D_CHANNEL, "Controller",
                        <<u7(PAUSE_CONTROLLER), u7(0)>>) >>
      [] action.type = "ChangeBPM" ->
           << MetaEvent(INSTANT, "Tempo", <<mspqn_from_bpm(action.value, 4)>>) >>

\* the MidiAction values the encoder is run on: PlayNote(u8), ChangeInstrument(u8),
\* ChangeVolume(u16), Pause, ChangeBPM(u16); the enum has no end-of-track variant
ActionAlphabet ==
    { MidiAction_PlayNote(60), MidiAction_PlayNote(162), ChangeInstrument(125),
      ChangeInstrument(0), ChangeInstrument(200),
      ChangeVolume(100), ChangeVolume(200), MidiAction_Pause, ChangeBPM(120),
      ChangeBPM(0), ChangeBPM(16385) }

RECURSIVE SlicesOfLen(_)
SlicesOfLen(n) ==
    IF n = 0 THEN {<<>>}
    ELSE {Append(t, a) : t \in SlicesOfLen(n - 1), a \in ActionAlphabet}

\* one ChangeInstrument per General MIDI program, as in test::change_instrument
InstrumentSlices == {<<ChangeInstrument(p)>> : p \in 0..127}

Slices == UNION {SlicesOfLen(n) : n \in 0..MaxActions} \cup InstrumentSlices

\* Timing::Metrical(D_TPQN) of the header as_track builds (lines 55-58)
as_track_timing == [kind |-> "Metrical", tpqn |-> u15(D_TPQN)]

IdleTrack == slice = <<>> /\ track = <<>> /\ apos = 0 /\ tpc = "idle"

InitTrack ==
    /\ slice \in Slices
    /\ track = <<>>
    /\ apos = 0
    /\ tpc = "start"

\* as_track, lines 55-64
AsTrackBegin ==
    /\ tpc = "start"
    /\ track' = track \o add_beggining
    /\ apos' = 1
    /\ tpc' = "loop"
    /\ UNCHANGED slice
    /\ UNCHANGED <<sheetVars, foldVars, playVars, clockVars>>

\* as_track, one iteration of lines 67-69
PushAsEvent ==
    /\ tpc = "loop"
    /\ apos <= Len(slice)
    /\ \/ /\ push_as_event_panics(slice[apos]) \/ push_as_event_may_overflow(slice[apos])
          /\ tpc' = "panic"
          /\ UNCHANGED <<track, apos>>
       \/ /\ ~push_as_event_panics(slice[apos])
          /\ track' = track \o push_as_event(slice[apos])
          /\ apos' = apos + 1
          /\ tpc' = tpc
    /\ UNCHANGED slice
    /\ UNCHANGED <<sheetVars, foldVars, playVars, clockVars>>

\* as_track, lines 72-75
AsTrackEnd ==
    /\ tpc = "loop"
    /\ apos > Len(slice)
    /\ track' = track \o add_end
    /\ tpc' = "done"
    /\ UNCHANGED <<slice, apos>>
    /\ UNCHANGED <<sheetVars, foldVars, playVars, clockVars>>

NextTrack == AsTrackBegin \/ PushAsEvent \/ AsTrackEnd

(***************************************************************************)
(* TimeSignature and TimeState (time_state.rs)                             *)
(***************************************************************************)
\* State::D_BPM, the tempo D_MSPQN presumes
D_BPM == 120

\* impl Default for TimeSignature
DefaultTimeSignature == [numerator |-> 4, denominator |-> 4]

\* TimeSignature::from_raw overflows u8 from 2^8 on
from_raw_overflows(denominator) == 2 ^ denominator > 255

\* TimeSignature::from_raw when the power did not panic
from_raw(numerator, denominator) ==
    [numerator |-> numerator, denominator |-> (2 ^ denominator) % 256]

D_MSPQN == mspqn_from_bpm(D_BPM, 4)

\* impl Default for TimeState
DefaultTimeState ==
    [time_signature |-> DefaultTimeSignature, microsecspqn |-> D_MSPQN, tpqn |-> D_TPQN]

set_mspqn(ts, mspqn) == [ts EXCEPT !.microsecspqn = mspqn]

set_time_signature(ts, sig) == [ts EXCEPT !.time_signature = sig]

\* set_mspqn_from_bpm (lines 83-88), when mspqn_from_bpm did not panic
set_mspqn_from_bpm(ts, bpm) ==
    set_mspqn(ts, mspqn_from_bpm(bpm, ts.time_signature.denominator))

\* bpm() (lines 94-97).  The f64 quotient 60e6 / mspqn is scaled by a power of
\* two and cast to u16: the cast truncates toward zero and saturates, so the
\* result is the integer quotient capped at 65535; 60e6 / 0 is infinite
\* (65535 after the cast) and infinite * 0 is NaN (0 after the cast).
bpm(ts) ==
    IF ts.microsecspqn = 0
    THEN IF ts.time_signature.denominator = 0 THEN 0 ELSE 65535
    ELSE Min(65535,
             (ONE_MINUTE_IN_MICROSECONDS * ts.time_signature.denominator)
                \div (ts.microsecspqn * 4))

\* duration_per_tick taking the default resolution instead of the header's
duration_per_tick_default_tpqn(ts) == ts.microsecspqn \div D_TPQN

\* duration_per_tick in microseconds; it panics (division by zero) when tpqn = 0
duration_per_tick(ts) == ts.microsecspqn \div ts.tpqn

(***************************************************************************)
(* TimeState on its own: built by default, then changed through its setters *)
(***************************************************************************)
\* from_raw is handed the exponents 0..MaxDenPower (denominators 1, 2, .. 16)
MaxDenPower == 4

\* bpm arguments, among what the compiler can hold in a State (0..=255): the
\* ends of the range, the tempos of the tests and of State, and the values on
\* both sides of 60,000,000 * d / (4 * bpm) = 2^24 for d = 4 and d = 16
ClockBpms == {0, 1, 3, 4, 14, 15, DEFAULT_BPM, D_BPM, MAX_BPM}

\* tempo values a tempo meta-event may carry
ClockMspqns == {1, 250000, 500000, 16777215}

\* TimeState::default()
InitClock ==
    /\ time_state = DefaultTimeState
    /\ bpm_arg = 0
    /\ cpc = "default"

\* set_time_signature(TimeSignature::from_raw(n, d)), as play_file calls it
SetTimeSignature ==
    /\ cpc \in {"default", "set"}
    /\ \E n \in {3, 4}, d \in 0..MaxDenPower :
          IF from_raw_overflows(d)
          THEN /\ cpc' = "panic"
               /\ UNCHANGED time_state
          ELSE /\ time_state' = set_time_signature(time_state, from_raw(n, d))
               /\ cpc' = "set"
    /\ bpm_arg' = 0
    /\ UNCHANGED <<file, device, buf, waits, epos, result, ppc>>
    /\ UNCHANGED <<sheetVars, foldVars, trackVars>>

\* set_mspqn, as play_file calls it for a tempo meta-event
SetMspqn ==
    /\ cpc \in {"default", "set"}
    /\ \E m \in ClockMspqns : time_state' = set_mspqn(time_state, m)
    /\ bpm_arg' = 0
    /\ cpc' = "set"
    /\ UNCHANGED <<file, device, buf, waits, epos, result, ppc>>
    /\ UNCHANGED <<sheetVars, foldVars, trackVars>>

\* set_mspqn_from_bpm (lines 83-88); the division of line 80 panics for bpm = 0
SetMspqnFromBpm ==
    /\ cpc \in {"default", "set"}
    /\ \E b \in ClockBpms :
          /\ bpm_arg' = b
          /\ IF mspqn_divisor(b) = 0
                \/ mspqn_den_overflows(time_state.time_signature.denominator)
             THEN /\ cpc' = "panic"
                  /\ UNCHANGED time_state
             ELSE /\ time_state' = set_mspqn_from_bpm(time_state, b)
                  /\ cpc' = "set"
    /\ UNCHANGED <<file, device, buf, waits, epos, result, ppc>>
    /\ UNCHANGED <<sheetVars, foldVars, trackVars>>

NextClock == SetTimeSignature \/ SetMspqn \/ SetMspqnFromBpm

(***************************************************************************)
(* play_file and prepare_connection (play.rs)                              *)
(***************************************************************************)
\* TrackEventKind::as_live_event: channel events are live, meta-events are not
as_live_event(ev) == ev.kind = "Midi"

StatusNibble(msg) ==
    CASE msg = "NoteOff" -> 8
      [] msg = "NoteOn" -> 9
      [] msg = "Controller" -> 11
      [] msg = "ProgramChange" -> 12

\* LiveEvent::write of a channel event: status byte, then the data bytes
write(b, ev) == b \o <<StatusNibble(ev.msg) * 16 + ev.channel>> \o ev.data

\* buf.clear() left out: the buffer keeps the bytes of the earlier events
buf_clear_forgotten(b) == b

\* buf.clear() (line 52)
buf_clear(b) == <<>>

\* the sleep of lines 29-31, as the entries it adds to the record of waits
sleep_for(ts, ev, i) ==
    IF ev.delta > 0
    THEN <<[event |-> i, micros |-> duration_per_tick(ts) * ev.delta]>>
    ELSE <<>>

\* lines 37-50: what a non-live event does to time_state
apply_meta(ts, ev) ==
    CASE ev.msg = "Tempo" -> set_mspqn(ts, ev.data[1])
      [] ev.msg = "TimeSignature" ->
           set_time_signature(ts, from_raw(ev.data[1], ev.data[2]))
      [] OTHER -> ts

\* an entry of the record of what the MIDI backend was asked to do
DeviceOp(op) == [op |-> op, bytes |-> <<>>]

Send(bytes) == [op |-> "send", bytes |-> bytes]

\* what prepare_connection asks of the MIDI backend (lines 63-97), given whether
\* MidiOutput::new works, the number of ports found, whether the port names can
\* be read, what the port selection typed in is ("valid", "unparsable",
\* "out_of_range") and whether connecting works
prepare_connection_device(new_ok, nports, name_ok, selection, connect_ok) ==
    <<DeviceOp("new")>>
    \o (IF new_ok THEN <<DeviceOp("ports")>> ELSE <<>>)
    \o (IF new_ok /\ nports >= 1 THEN <<DeviceOp("port_name")>> ELSE <<>>)
    \o (IF new_ok /\ name_ok /\ (nports = 1 \/ (nports > 1 /\ selection = "valid"))
        THEN <<DeviceOp("connect")>> ELSE <<>>)

\* the value prepare_connection returns; "panic" is the unwrap of port_name
prepare_connection_result(new_ok, nports, name_ok, selection, connect_ok) ==
    IF ~new_ok THEN "Err: MidiOutput::new"
    ELSE IF nports = 0 THEN "Err: No output port found."
    ELSE IF ~name_ok THEN "panic"
    ELSE IF nports > 1 /\ selection = "unparsable" THEN "Err: ParseIntError"
    ELSE IF nports > 1 /\ selection = "out_of_range"
         THEN "Err: Invalid output port selected."
    ELSE IF ~connect_ok THEN "Err: ConnectError"
    ELSE "Ok"

Selections == {"valid", "unparsable", "out_of_range"}

TimingError == "Err: The timing of the received file is not coded with metrical."

\* the events the played tracks are made of
EventAlphabet ==
    { MidiEvent(0, 0, "NoteOn", <<60, 63>>),
      MidiEvent(2, 0, "NoteOff", <<60, 63>>),
      MidiEvent(1, 1, "ProgramChange", <<125>>),
      MetaEvent(0, "Tempo", <<250000>>),
      MetaEvent(1, "Tempo", <<1000000>>),
      MetaEvent(0, "TimeSignature", <<3, 3, 24, 8>>),
      MetaEvent(0, "TimeSignature", <<4, 8, 24, 8>>),
      MetaEvent(0, "TrackName", TRACK_NAME),
      MetaEvent(1, "EndOfTrack", <<>>) }

RECURSIVE TracksOfLen(_)
TracksOfLen(n) ==
    IF n = 0 THEN {<<>>}
    ELSE {Append(t, e) : t \in TracksOfLen(n - 1), e \in EventAlphabet}

PlayedTracks == UNION {TracksOfLen(n) : n \in 0..MaxEvents}

\* header timings: metrical with some ticks per quarter note, or timecode
Timings ==
    {[kind |-> "Metrical", tpqn |-> t] : t \in {0, 7, 480}}
    \cup {[kind |-> "Timecode", tpqn |-> 0]}

IdlePlay ==
    /\ file = [timing |-> as_track_timing, tracks |-> <<>>]
    /\ device = <<>>
    /\ buf = <<>>
    /\ time_state = DefaultTimeState
    /\ waits = <<>>
    /\ epos = 0
    /\ result = "none"
    /\ ppc = "idle"

InitPlay ==
    /\ file \in [timing : Timings, tracks : {<<>>} \cup {<<t>> : t \in PlayedTracks}]
    /\ device = <<>>
    /\ buf = <<>>
    /\ time_state = DefaultTimeState
    /\ waits = <<>>
    /\ epos = 0
    /\ result = "none"
    /\ ppc = "call"

\* play_file, line 17: prepare_connection()?
PrepareConnection ==
    /\ ppc = "call"
    /\ \E new_ok \in BOOLEAN, nports \in 0..2, name_ok \in BOOLEAN,
          selection \in Selections, connect_ok \in BOOLEAN :
         LET res == prepare_connection_result(new_ok, nports, name_ok, selection,
                                              connect_ok)
         IN  /\ device' = device
                   \o prepare_connection_device(new_ok, nports, name_ok, selection,
                                                connect_ok)
             /\ CASE res = "Ok" -> ppc' = "timing" /\ result' = result
                  [] res = "panic" -> ppc' = "panic" /\ result' = result
                  [] OTHER -> ppc' = "returned" /\ result' = res
    /\ UNCHANGED <<file, buf, time_state, waits, epos>>
    /\ UNCHANGED <<sheetVars, foldVars, trackVars, clockVars>>

\* play_file, lines 19-26; returning drops conn_out, which closes the connection
CheckTiming ==
    /\ ppc = "timing"
    /\ IF file.timing.kind = "Metrical"
       THEN /\ time_state' = [time_state EXCEPT !.tpqn = file.timing.tpqn]
            /\ epos' = 1
            /\ ppc' = "loop"
            /\ UNCHANGED <<device, result>>
       ELSE /\ result' = TimingError
            /\ device' = Append(device, DeviceOp("close"))
            /\ ppc' = "returned"
            /\ UNCHANGED <<time_state, epos>>
    /\ UNCHANGED <<file, buf, waits>>
    /\ UNCHANGED <<sheetVars, foldVars, trackVars, clockVars>>

\* play_file, line 28: `&file.tracks[0]` panics on a file without tracks
NoTrack ==
    /\ ppc = "loop"
    /\ file.tracks = <<>>
    /\ ppc' = "panic"
    /\ UNCHANGED <<file, device, buf, time_state, waits, epos, result>>
    /\ UNCHANGED <<sheetVars, foldVars, trackVars, clockVars>>

\* play_file, one iteration of lines 28-53
PlayEvent ==
    /\ ppc = "loop"
    /\ file.tracks # <<>>
    /\ epos <= Len(file.tracks[1])
    /\ LET ev == file.tracks[1][epos] IN
       \/ \* the division of duration_per_tick panics
          /\ ev.delta > 0 /\ time_state.tpqn = 0
          /\ ppc' = "panic"
          /\ UNCHANGED <<device, buf, time_state, waits, epos>>
       \/ /\ ~(ev.delta > 0 /\ time_state.tpqn = 0)
          /\ waits' = waits \o sleep_for(time_state, ev, epos)
          /\ \/ \* the power of from_raw overflows (overflow checks on)
                /\ ~as_live_event(ev)
                /\ ev.msg = "TimeSignature"
                /\ from_raw_overflows(ev.data[2])
                /\ ppc' = "panic"
                /\ UNCHANGED <<device, buf, time_state, epos>>
             \/ /\ IF as_live_event(ev)
                   THEN /\ device' = Append(device, Send(write(buf, ev)))
                        /\ buf' = buf_clear(write(buf, ev))
                        /\ UNCHANGED time_state
                   ELSE /\ time_state' = apply_meta(time_state, ev)
                        /\ buf' = buf_clear(buf)
                        /\ UNCHANGED device
                /\ epos' = epos + 1
                /\ ppc' = ppc
    /\ UNCHANGED <<file, result>>
    /\ UNCHANGED <<sheetVars, foldVars, trackVars, clockVars>>

\* play_file, lines 55-58; returning drops conn_out, which closes the connection
PlayEnd ==
    /\ ppc = "loop"
    /\ file.tracks # <<>>
    /\ epos > Len(file.tracks[1])
    /\ device' = Append(device, DeviceOp("close"))
    /\ result' = "Ok"
    /\ ppc' = "returned"
    /\ UNCHANGED <<file, buf, time_state, waits, epos>>
    /\ UNCHANGED <<sheetVars, foldVars, trackVars, clockVars>>

NextPlay == PrepareConnection \/ CheckTiming \/ NoTrack \/ PlayEvent \/ PlayEnd

(***************************************************************************)
(* Properties                                                              *)
(***************************************************************************)
IsTempo(ev) == ev.kind = "Meta" /\ ev.msg = "Tempo"

IsEndOfTrack(ev) == ev.kind = "Meta" /\ ev.msg = "EndOfTrack"

\* the track play_file plays (empty while there is none)
PlayedTrack == IF file.tracks = <<>> THEN <<>> ELSE file.tracks[1]

\* the events the loop of play_file is through with
PlayedEvents == SubSeq(PlayedTrack, 1, epos - 1)

\* the buffers sent to the device so far, in order
Sends == SelectSeq(device, LAMBDA d : d.op = "send")

ChannelEvents(t) == SelectSeq(t, LAMBDA ev : ev.kind = "Midi")

\* C1: play_file on a track whose header timing is timecode returns the format
\* error before any device interaction: when the format error is returned, no
\* port was enumerated, no connection was made and nothing was sent.
C1_FormatErrorBeforeDevice ==
    (file.timing.kind = "Timecode" /\ ppc = "returned") =>
        /\ result = TimingError
        /\ \A i \in 1..Len(device) : device[i].op \notin {"ports", "connect", "send"}

\* C2: the channel events of track 0 are sent in the order of the track, each
\* exactly once and each as the serialization of that event alone; no
\* meta-event is sent.  At every point of play_file the buffers sent are the
\* serializations of the channel events among the events played so far, and a
\* run that returns Ok has played the whole track.
C2_SendsInTrackOrder ==
    /\ Len(Sends) = Len(ChannelEvents(PlayedEvents))
    /\ \A i \in 1..Len(Sends) :
          Sends[i].bytes = write(<<>>, ChannelEvents(PlayedEvents)[i])
    /\ (result = "Ok" => PlayedEvents = PlayedTrack)

C2_Witness ==
    /\ result = "Ok"
    /\ Len(Sends) >= 2
    /\ Sends[1] # Sends[2]
    /\ \E i \in 1..Len(PlayedTrack) : PlayedTrack[i].kind = "Meta"

\* microseconds per quarter note set by the latest tempo meta-event among the
\* first n events of t, 500,000 if there is none
RECURSIVE LatestTempo(_, _)
LatestTempo(t, n) ==
    IF n = 0 THEN 500000
    ELSE IF IsTempo(t[n]) THEN t[n].data[1]
    ELSE LatestTempo(t, n - 1)

\* C3: the wait before an event with delta d > 0 is d * floor(mspqn / tpqn)
\* microseconds, mspqn being set by the latest tempo meta-event before that
\* event (500,000 if none); a tempo meta-event does not change its own wait
\* nor an earlier one, and an event with delta 0 causes no wait.
C3_WaitByLatestTempo ==
    /\ \A k \in 1..Len(waits) :
          LET i == waits[k].event IN
          /\ PlayedTrack[i].delta > 0
          /\ waits[k].micros =
                PlayedTrack[i].delta
                    * (LatestTempo(PlayedTrack, i - 1) \div file.timing.tpqn)
          /\ k > 1 => waits[k - 1].event < i
    /\ \A i \in 1..Len(PlayedEvents) :
          PlayedTrack[i].delta > 0 => \E k \in 1..Len(waits) : waits[k].event = i

C3_Witness ==
    /\ result = "Ok"
    /\ Len(waits) >= 2
    /\ \E k \in 1..Len(waits) : IsTempo(PlayedTrack[waits[k].event])
    /\ \E k \in 1..Len(waits) :
          LatestTempo(PlayedTrack, waits[k].event - 1) # 500000
    /\ \E i \in 1..Len(PlayedTrack) : PlayedTrack[i].delta = 0

\* C4: for every action sequence, the empty one included, the track built by
\* as_track starts with track name, time signature 4/4 (numerator 4, power 2),
\* key signature C major and MIDI port 0, in this order and at delta 0; its
\* last event is end-of-track at delta 1, which occurs nowhere else.
C4_TrackFrame ==
    tpc = "done" =>
        /\ Len(track) >= 5
        /\ \A i \in 1..4 : track[i].kind = "Meta" /\ track[i].delta = 0
        /\ track[1].msg = "TrackName"
        /\ track[2].msg = "TimeSignature"
        /\ track[2].data[1] = 4 /\ track[2].data[2] = 2
        /\ track[3].msg = "KeySignature" /\ track[3].data = <<0, 0>>
        /\ track[4].msg = "MidiPort" /\ track[4].data = <<0>>
        /\ IsEndOfTrack(track[Len(track)])
        /\ track[Len(track)].delta = 1
        /\ \A i \in 1..(Len(track) - 1) : ~IsEndOfTrack(track[i])

C4_Witness ==
    /\ tpc = "done"
    /\ Len(slice) >= 2
    /\ \E i \in 1..Len(track) : track[i].delta = quarter_note_delta

\* C5: for a non-empty snapshot list, the sequence process returns starts with
\* ChangeBpm, ChangeInstrument, ChangeVolume of the first snapshot, in that
\* order, and ends with its only end-of-sequence action.
C5_ProcessFrame ==
    pc \in {"reduce", "done"} =>
        /\ states # <<>>
        /\ Len(ret) >= 3
        /\ ret[1] = [type |-> "ChangeBPM", value |-> states[1].bpm]
        /\ ret[2] = [type |-> "ChangeInstrument", value |-> states[1].instrument]
        /\ ret[3] = [type |-> "ChangeVolume", value |-> states[1].volume]
        /\ \A i \in 1..Len(ret) :
              ret[i].type = "EndTrack" <=> (pc = "done" /\ i = Len(ret))

C5_Witness ==
    /\ pc = "done"
    /\ Len(states) >= 2
    /\ states[1].bpm # DEFAULT_BPM
    /\ states[2].volume # DEFAULT_VOLUME

\* C6: after the three start actions, each snapshot makes process emit at most
\* one action, chosen against the previous snapshot (the first against itself):
\* ChangeBpm if bpm differs, else ChangeInstrument if instrument differs, else
\* ChangeVolume if volume differs, else PlayNote or Pause if a note is present,
\* else nothing.
C6_OneActionByPriority ==
    [][(pc = "reduce" /\ ridx' = ridx + 1) =>
          LET prev == IF ridx = 1 THEN states[1] ELSE states[ridx - 1]
              snap == states[ridx]
              new == SubSeq(ret', Len(ret) + 1, Len(ret'))
          IN  /\ SubSeq(ret', 1, Len(ret)) = ret
              /\ Len(new) <= 1
              /\ IF snap.bpm # prev.bpm
                 THEN new = <<[type |-> "ChangeBPM", value |-> snap.bpm]>>
                 ELSE IF snap.instrument # prev.instrument
                 THEN new = <<[type |-> "ChangeInstrument", value |-> snap.instrument]>>
                 ELSE IF snap.volume # prev.volume
                 THEN new = <<[type |-> "ChangeVolume", value |-> snap.volume]>>
                 ELSE IF snap.note = "Pause"
                 THEN Len(new) = 1 /\ new[1].type = "Pause"
                 ELSE IF snap.note \in PitchNotes
                 THEN Len(new) = 1 /\ new[1].type = "PlayNote"
                 ELSE new = <<>>]_vars

\* a compilation in which a snapshot changed the instrument while carrying a
\* note, and another snapshot played its note
C6_Witness ==
    /\ pc = "done"
    /\ \E i \in 2..Len(states) :
          /\ states[i].instrument # states[i - 1].instrument
          /\ states[i].note \in PitchNotes
    /\ \E i \in 4..Len(ret) : ret[i].type = "PlayNote"

\* C7: compiling any input string (proccess_text, then process) completes
\* without a failure, the empty string and a string starting with a
\* vowel-toggle character included.
C7_CompilerTotal == pc # "panic"

\* "BPM+R+R-"
TextBpmRR == <<"B", "P", "M", "+", "R", "+", "R", "-">>

\* C8: for "BPM+R+R-" with the start state 120 BPM, instrument 0, volume 100,
\* the text folds to the tempo-increment, octave-increment and
\* octave-decrement markers, and the actions are exactly ChangeBpm(200),
\* ChangeInstrument(0), ChangeVolume(100) and the end marker.
C8_BpmScenario ==
    (pc = "done" /\ text = TextBpmRR /\ sheet_bpm = 120) =>
        /\ folded = <<DEFAULT_BPM_PLUS, DEFAULT_R_PLUS, DEFAULT_R_MINUS>>
        /\ ret = << [type |-> "ChangeBPM", value |-> 200],
                    [type |-> "ChangeInstrument", value |-> 0],
                    [type |-> "ChangeVolume", value |-> 100],
                    [type |-> "EndTrack"] >>

NoteLetters ==
    {"A", "B", "C", "D", "E", "F", "G", "a", "b", "c", "d", "e", "f", "g"}

\* semitone of a note letter: Do=0, Re=2, Mi=4, Fa=5, Sol=7, La=9, Si=11
Semitone(ch) ==
    CASE ch \in {"C", "c"} -> 0
      [] ch \in {"D", "d"} -> 2
      [] ch \in {"E", "e"} -> 4
      [] ch \in {"F", "f"} -> 5
      [] ch \in {"G", "g"} -> 7
      [] ch \in {"A", "a"} -> 9
      [] ch \in {"B", "b"} -> 11

\* C9: for a text made only of note letters, process emits after the three
\* start actions exactly one PlayNote per letter, in text order, with pitch
\* semitone(letter) + 12 * (1 + octave); "CDEFGAB" gives 60 62 64 65 67 69 71.
C9_NotePitches ==
    (pc = "done" /\ text # <<>> /\ \A i \in 1..Len(text) : text[i] \in NoteLetters) =>
        /\ Len(ret) = Len(text) + 4
        /\ \A i \in 1..Len(text) :
              /\ ret[i + 3].type = "PlayNote"
              /\ ret[i + 3].note = Semitone(text[i]) + 12 * (1 + states[i].octave)

BpmPlusToken == <<"B", "P", "M", "+">>
RPlusToken == <<"R", "+">>
RMinusToken == <<"R", "-">>

\* one pass over s from the left: a token at the current position becomes its
\* marker and the pass continues after it, any other character is copied
RECURSIVE Tokenized(_)
Tokenized(s) ==
    IF s = <<>> THEN <<>>
    ELSE IF IsPrefix(BpmPlusToken, s)
         THEN <<DEFAULT_BPM_PLUS>> \o Tokenized(SubSeq(s, 5, Len(s)))
    ELSE IF IsPrefix(RPlusToken, s)
         THEN <<DEFAULT_R_PLUS>> \o Tokenized(SubSeq(s, 3, Len(s)))
    ELSE IF IsPrefix(RMinusToken, s)
         THEN <<DEFAULT_R_MINUS>> \o Tokenized(SubSeq(s, 3, Len(s)))
    ELSE <<Head(s)>> \o Tokenized(Tail(s))

HasToken(s) ==
    \E i \in 1..Len(s) :
        \/ IsPrefix(BpmPlusToken, SubSeq(s, i, Len(s)))
        \/ IsPrefix(RPlusToken, SubSeq(s, i, Len(s)))
        \/ IsPrefix(RMinusToken, SubSeq(s, i, Len(s)))

\* the characters Note::from_char accepts: the note letters and the space
NoteChars == NoteLetters \cup {" "}

\* position i of s holds a vowel toggle right after a character of set
AfterOneOf(s, i, set) == s[i] \in VowelToggles /\ i > 1 /\ s[i - 1] \in set

VowelTestText ==
    <<"O", "o", "I", "i", "U", "u", "A", "i", "B", "I", "C", "u", "D", "U",
      "E", "o", "F", "o">>

VowelTestFolded ==
    <<"O", "o", "I", "i", "U", "u", "A", "A", "B", "B", "C", "C", "D", "D",
      "E", "E", "F", "F">>

\* C11 as stated: map_substring_to_char keeps the number of characters of its
\* input, a vowel toggle right after a note letter becomes a copy of that
\* letter, a vowel toggle not right after a note character stays, and
\* "OoIiUuAiBICuDUEoFo" becomes "OoIiUuAABBCCDDEEFF".
C11_VowelsOverInput ==
    pc \in {"scan", "again"} =>
        /\ Len(folded) = Len(text)
        /\ \A i \in 1..Len(text) :
              /\ AfterOneOf(text, i, NoteLetters) => folded[i] = text[i - 1]
              /\ (text[i] \in VowelToggles /\ ~AfterOneOf(text, i, NoteChars))
                    => folded[i] = text[i]
        /\ text = VowelTestText => folded = VowelTestFolded

\* C11 amended: the vowel replacement keeps the number of characters of the
\* text after the tokens "BPM+", "R+", "R-" were replaced by their markers (of
\* the input itself when it holds no token); in that text a vowel toggle right
\* after a note letter becomes a copy of that letter, a vowel toggle not right
\* after a note character (note letter or space) stays, and
\* "OoIiUuAiBICuDUEoFo" becomes "OoIiUuAABBCCDDEEFF".
C11_VowelsOverTokenized ==
    pc \in {"scan", "again"} =>
        LET t == Tokenized(text) IN
        /\ Len(folded) = Len(t)
        /\ ~HasToken(text) => Len(folded) = Len(text)
        /\ \A i \in 1..Len(t) :
              /\ AfterOneOf(t, i, NoteLetters) => folded[i] = t[i - 1]
              /\ (t[i] \in VowelToggles /\ ~AfterOneOf(t, i, NoteChars))
                    => folded[i] = t[i]
        /\ text = VowelTestText => folded = VowelTestFolded

C11_Witness ==
    /\ pc = "scan"
    /\ text = <<"R", "+", "B", "o">>
    /\ folded = <<DEFAULT_R_PLUS, "B", "B">>

\* C12: every occurrence of "BPM+", "R+", "R-" is replaced by its marker, every
\* other character (vowel toggles after a note character aside) is kept in
\* order, and the three successive replacements give what one left-to-right,
\* non-overlapping tokenization of the input gives.
C12_FoldIsOnePass ==
    pc \in {"scan", "again"} =>
        LET t == Tokenized(text) IN
        /\ ~HasToken(t)
        /\ Len(folded) = Len(t)
        /\ \A i \in 1..Len(t) :
              \/ folded[i] = t[i]
              \/ AfterOneOf(t, i, NoteChars) /\ folded[i] = t[i - 1]
        /\ text = TextBpmRR =>
              folded = <<DEFAULT_BPM_PLUS, DEFAULT_R_PLUS, DEFAULT_R_MINUS>>

C12_Witness ==
    /\ pc = "scan"
    /\ text = <<"R", "+", "R", "+">>
    /\ folded = <<DEFAULT_R_PLUS, DEFAULT_R_PLUS>>

\* C13 as stated: for every input holding none of "BPM+", "R+", "R-",
\* map_substring_to_char of its own output is that output.
C13_IdempotentOnTokenFree ==
    (pc = "again" /\ ~HasToken(text)) => refolded = folded

\* a note character followed by two vowel toggles
NoteVowelVowel(s) ==
    \E i \in 3..Len(s) :
        s[i] \in VowelToggles /\ AfterOneOf(s, i - 1, NoteChars)

\* "B", a vowel toggle, "PM+": the copy of B written over the vowel toggle
\* completes the token "BPM+"
EchoCompletesToken(s) ==
    \E i \in 1..(Len(s) - 4) :
        /\ s[i] = "B"
        /\ s[i + 1] \in VowelToggles
        /\ SubSeq(s, i + 2, i + 4) = <<"P", "M", "+">>

\* C13 amended: for every input holding none of "BPM+", "R+", "R-", no note
\* character followed by two vowel toggles and no "B", vowel toggle, "PM+",
\* map_substring_to_char of its own output is that output; "Boo" gives "BBo"
\* and then "BBB", "BoPM+" gives "BBPM+" and then "B" and the tempo marker.
C13_IdempotentWithoutVowelPairs ==
    /\ (pc = "again" /\ ~HasToken(text) /\ ~NoteVowelVowel(text)
           /\ ~EchoCompletesToken(text))
          => refolded = folded
    /\ (pc = "again" /\ text = <<"B", "o", "o">>)
          => folded = <<"B", "B", "o">> /\ refolded = <<"B", "B", "B">>
    /\ (pc = "again" /\ text = <<"B", "o", "P", "M", "+">>)
          => /\ folded = <<"B", "B", "P", "M", "+">>
             /\ refolded = <<"B", DEFAULT_BPM_PLUS>>

C13_Witness ==
    /\ pc = "again"
    /\ text = <<"B", "o", " ", "o">>
    /\ folded = <<"B", "B", " ", " ">>
    /\ refolded = folded

(***************************************************************************)
(* parse_char arithmetic: C14, C15, C16, C17                               *)
(***************************************************************************)
\* the snapshot parse_char starts from, and the last one of a vector
PrevSnapshot == IF states = <<>> THEN DefaultState ELSE states[Len(states)]
LastOf(sts) == sts[Len(sts)]

\* parse_char is about to read the character ch
Reads(ch) == pc = "scan" /\ pos <= Len(folded) /\ folded[pos] = ch

NineOctaveUps ==
    <<"R", "+", "R", "+", "R", "+", "R", "+", "R", "+", "R", "+", "R", "+",
      "R", "+", "R", "+">>

\* C14: every snapshot has instrument <= 127, octave <= 12, volume <= 16383.
C14_SnapshotLimits ==
    \A i \in 1..Len(states) :
        /\ states[i].instrument <= 127
        /\ states[i].octave <= 12
        /\ states[i].volume <= 16383

C14_Witness ==
    /\ pc = "done"
    /\ \E i \in 1..Len(states) : states[i].octave = 12
    /\ \E i \in 1..Len(states) : states[i].instrument = 0

C16_OctaveSteps ==
    [][ /\ Reads(DEFAULT_R_PLUS) =>
            /\ pc' = "scan"
            /\ Len(states') = Len(states) + 1
            /\ LastOf(states').octave =
                  IF PrevSnapshot.octave + 1 <= 12
                  THEN PrevSnapshot.octave + 1 ELSE 4
        /\ Reads(DEFAULT_R_MINUS) =>
            /\ pc' = "scan"
            /\ Len(states') = Len(states) + 1
            /\ LastOf(states').octave =
                  IF PrevSnapshot.octave - 1 > 0
                  THEN PrevSnapshot.octave - 1 ELSE 0
        /\ (Reads(DEFAULT_R_PLUS) \/ Reads(DEFAULT_R_MINUS)) =>
            /\ LastOf(states').bpm = PrevSnapshot.bpm
            /\ LastOf(states').instrument = PrevSnapshot.instrument
            /\ LastOf(states').volume = PrevSnapshot.volume ]_vars

C16_Witness ==
    /\ pc = "scan"
    /\ text = NineOctaveUps
    /\ Len(states) = 9
    /\ states[8].octave = MAX_OCTAVE
    /\ states[9].octave = DEFAULT_OCTAVE

\* C17: a digit adds its value to the instrument of the current state, so the
\* snapshot appended for a non-zero digit differs in instrument from the
\* previous snapshot ("A5": the second snapshot has instrument 0 + 5).
C17_DigitAddsToInstrument ==
    (pc = "done" /\ text = <<"A", "5">>) =>
        /\ Len(states) = 2
        /\ states[2].instrument = states[1].instrument + 5
        /\ states[2].instrument # states[1].instrument

(***************************************************************************)
(* The clock: C18, C19                                                     *)
(***************************************************************************)
FourFour == [numerator |-> 4, denominator |-> 4]

\* C18: a default TimeState has time signature 4/4, 480 ticks and 500,000
\* microseconds per quarter note, so its bpm() is 120; set_mspqn_from_bpm(120)
\* on a 4/4 clock sets mspqn to 500,000.
C18_DefaultClock ==
    /\ cpc = "default" =>
          /\ time_state.time_signature = FourFour
          /\ time_state.tpqn = 480
          /\ time_state.microsecspqn = 500000
          /\ bpm(time_state) = 120
    /\ (cpc = "set" /\ bpm_arg = 120 /\ time_state.time_signature = FourFour) =>
          time_state.microsecspqn = 500000

C18_Witness ==
    /\ cpc = "set"
    /\ bpm_arg = 120
    /\ time_state.time_signature = FourFour
    /\ time_state.microsecspqn = 500000
    /\ bpm(time_state) = 120

\* the time signature has one of the denominators 1, 2, 4, 8, 16
PlainDenominator == time_state.time_signature.denominator \in {1, 2, 4, 8, 16}

\* C19: for 1 <= b <= MAX_BPM and d in {1, 2, 4, 8, 16}, after the mspqn was
\* set to mspqn_from_bpm(b, d) under a time signature of denominator d,
\* bpm() returns b up to a difference of 1.
C19_TempoRoundTrip ==
    (cpc = "set" /\ bpm_arg \in 1..MAX_BPM /\ PlainDenominator) =>
        /\ bpm(time_state) - bpm_arg <= 1
        /\ bpm_arg - bpm(time_state) <= 1

(***************************************************************************)
(* The encoder: C20                                                        *)
(***************************************************************************)
\* push_as_event is about to encode ChangeInstrument(p) with p in 0..=127
EncodesInstrument ==
    /\ tpc = "loop"
    /\ apos <= Len(slice)
    /\ slice[apos].type = "ChangeInstrument"
    /\ slice[apos].value \in 0..127

\* C20: push_as_event for ChangeInstrument(p), p in 0..=127, appends exactly
\* one event, a program change with program p on channel 0 at delta 0, and
\* leaves the events already in the track as they were.
C20_ProgramChange ==
    [][ EncodesInstrument =>
          /\ tpc' = "loop"
          /\ Len(track') = Len(track) + 1
          /\ SubSeq(track', 1, Len(track)) = track
          /\ track'[Len(track')] =
                [delta |-> 0, kind |-> "Midi", msg |-> "ProgramChange",
                 channel |-> 0, data |-> <<slice[apos].value>>] ]_vars

C20_Witness ==
    /\ slice = <<ChangeVolume(100), ChangeInstrument(125)>>
    /\ apos = 3
    /\ Len(track) = Len(add_beggining) + 2
    /\ track[Len(track)].msg = "ProgramChange"
    /\ track[Len(track)].data = <<125>>
    /\ track[Len(track) - 1].msg = "Controller"

(***************************************************************************)
(* Track time: C21                                                         *)
(***************************************************************************)
RECURSIVE SumDeltas(_)
SumDeltas(t) == IF t = <<>> THEN 0 ELSE Head(t).delta + SumDeltas(Tail(t))

\* the number of PlayNote and Pause actions among the first n of the slice
TimedActions(n) ==
    Cardinality({i \in 1..n : slice[i].type \in {"PlayNote", "Pause"}})

PlaysMeta(msg) ==
    /\ ppc = "loop"
    /\ file.tracks # <<>>
    /\ epos <= Len(file.tracks[1])
    /\ file.tracks[1][epos].kind = "Meta"
    /\ file.tracks[1][epos].msg = msg

\* C22: ticks-per-quarter-note is set once from the header before the first
\* event and never changes afterwards; a tempo meta-event changes only
\* microseconds-per-quarter-note; a time-signature meta-event changes only the
\* time signature, to (numerator, 2^power), and leaves
\* microseconds-per-quarter-note as it was.
C22_ClockFrame ==
    [][ /\ (ppc = "timing" /\ ppc' = "loop") =>
              time_state'.tpqn = file.timing.tpqn
        /\ ppc = "loop" => time_state'.tpqn = time_state.tpqn
        /\ PlaysMeta("Tempo") =>
              /\ time_state'.time_signature = time_state.time_signature
              /\ ppc' = "loop" =>
                    time_state'.microsecspqn = file.tracks[1][epos].data[1]
        /\ (PlaysMeta("TimeSignature") /\ time_state.tpqn > 0) =>
              /\ ppc' = "loop"
              /\ time_state'.time_signature =
                    [numerator |-> file.tracks[1][epos].data[1],
                     denominator |-> 2 ^ file.tracks[1][epos].data[2]]
              /\ time_state'.microsecspqn = time_state.microsecspqn ]_vars

(***************************************************************************)
(* Characters without a meaning: C23                                       *)
(***************************************************************************)
\* not a note letter or space, '+', '-', '?', newline, ';', a vowel toggle or
\* a marker
Unrecognized(ch) ==
    /\ ch \notin NoteChars
    /\ ch \notin {"+", "-", "?", "\n", ";"}
    /\ ch \notin VowelToggles
    /\ ch \notin {DEFAULT_R_PLUS, DEFAULT_R_MINUS, DEFAULT_BPM_PLUS}

\* the index in states of the last snapshot pushed for folded[i]: a vowel
\* toggle left in the folded text pushes two snapshots, any other character one
SnapshotOf(i) == i + Cardinality({j \in 1..i : folded[j] \in VowelToggles})

\* the reducer is about to look at the snapshot of an unrecognized character
ReducesUnrecognized ==
    /\ pc = "reduce"
    /\ ridx <= Len(states)
    /\ \E i \in 1..Len(folded) : Unrecognized(folded[i]) /\ SnapshotOf(i) = ridx

\* C23: an unrecognized character appends exactly one snapshot whose bpm,
\* instrument, octave and volume are those of the previous state, and the
\* reducer emits no action for that snapshot.
C23_UnrecognizedIgnored ==
    [][ /\ (pc = "scan" /\ pos <= Len(folded) /\ Unrecognized(folded[pos])) =>
              /\ pc' = "scan"
              /\ Len(states') = Len(states) + 1
              /\ SubSeq(states', 1, Len(states)) = states
              /\ LastOf(states').bpm = PrevSnapshot.bpm
              /\ LastOf(states').instrument = PrevSnapshot.instrument
              /\ LastOf(states').octave = PrevSnapshot.octave
              /\ LastOf(states').volume = PrevSnapshot.volume
        /\ ReducesUnrecognized => ret' = ret ]_vars

C23_Witness ==
    /\ pc = "done"
    /\ text = <<"A", "x">>
    /\ Len(states) = 2
    /\ Len(ret) = 5
    /\ ret[4].type = "PlayNote"

(***************************************************************************)
(* No change is dropped: C24                                               *)
(***************************************************************************)
\* in how many of bpm, instrument and volume two snapshots differ
Differences(a, b) ==
    (IF a.bpm # b.bpm THEN 1 ELSE 0)
    + (IF a.instrument # b.instrument THEN 1 ELSE 0)
    + (IF a.volume # b.volume THEN 1 ELSE 0)

\* the bpm, instrument and volume in force after the actions of seq, from st
RECURSIVE Replay(_, _)
Replay(seq, st) ==
    IF seq = <<>> THEN st
    ELSE LET a == Head(seq) IN
         Replay(Tail(seq),
                CASE a.type = "ChangeBPM" -> [st EXCEPT !.bpm = a.value]
                  [] a.type = "ChangeInstrument" -> [st EXCEPT !.instrument = a.value]
                  [] a.type = "ChangeVolume" -> [st EXCEPT !.volume = a.value]
                  [] OTHER -> st)

Unset == [bpm |-> -1, instrument |-> -1, volume |-> -1]

\* C24: two consecutive snapshots differ in at most one of bpm, instrument and
\* volume, and replaying the ChangeBPM, ChangeInstrument and ChangeVolume
\* actions of the reduced sequence in order ends with the bpm, instrument and
\* volume of the last snapshot.
C24_NoChangeDropped ==
    /\ \A i \in 1..(Len(states) - 1) : Differences(states[i], states[i + 1]) <= 1
    /\ pc = "done" =>
          Replay(ret, Unset) =
             [bpm |-> LastOf(states).bpm,
              instrument |-> LastOf(states).instrument,
              volume |-> LastOf(states).volume]

C24_Witness ==
    /\ pc = "done"
    /\ text = <<"A", "B", "P", "M", "+", "+">>
    /\ LastOf(states).bpm = 160
    /\ LastOf(states).volume = 200
    /\ ret[5] = ChangeBPM(160)
    /\ ret[6] = ChangeVolume(200)

(***************************************************************************)
(* The literal vowel toggle: C25                                           *)
(***************************************************************************)
\* parse_char is about to read a vowel toggle, with a snapshot before it and
\* an instrument other than 125
ReadsLiteralVowel ==
    /\ pc = "scan"
    /\ pos <= Len(folded)
    /\ folded[pos] \in VowelToggles
    /\ states # <<>>
    /\ current_state.instrument # 125

\* the reducer is about to look at snapshot ridx, the first (which = 1) or the
\* second (which = 0) snapshot of a vowel toggle whose copied snapshot has an
\* instrument other than 125
ReducesVowel(which) ==
    /\ pc = "reduce"
    /\ ridx + which <= Len(states)
    /\ \E i \in 1..Len(folded) :
          folded[i] \in VowelToggles /\ SnapshotOf(i) = ridx + which
    /\ states[ridx + which].instrument # 125

C26_PitchFitsSevenBits ==
    \A i \in 1..Len(states) :
        states[i].note \in PitchNotes =>
            /\ NoteAsU8(states[i].note) + 12 * (1 + states[i].octave) <= 127
            /\ u7(process_pitch(states[i].note, states[i].octave))
                  = process_pitch(states[i].note, states[i].octave)

(***************************************************************************)
(* Encoded volume: C27                                                     *)
(***************************************************************************)
\* the controller value push_as_event writes for ChangeVolume(v)
EncodedVolume(v) == push_as_event(ChangeVolume(v))[1].data[2]

\* C27: whenever '+' raises the volume from v to v' > v, the value encoded for
\* ChangeVolume(v') is at least the value encoded for ChangeVolume(v).
C27_EncodedVolumeMonotonic ==
    [][ (Reads("+") /\ LastOf(states').volume > PrevSnapshot.volume) =>
            /\ LastOf(states').volume <= MAX_VOLUME
            /\ EncodedVolume(LastOf(states').volume)
                  >= EncodedVolume(PrevSnapshot.volume) ]_vars

(***************************************************************************)
(* Notes are released: C28                                                 *)
(***************************************************************************)
\* the keys sounding on a channel after the first n events of the track
RECURSIVE Sounding(_)
Sounding(n) ==
    IF n = 0 THEN {}
    ELSE LET ev == track[n] IN
         IF ev.msg = "NoteOn" THEN Sounding(n - 1) \cup {<<ev.channel, ev.data[1]>>}
         ELSE IF ev.msg = "NoteOff" THEN Sounding(n - 1) \ {<<ev.channel, ev.data[1]>>}
         ELSE Sounding(n - 1)

\* C28: each note-on event is immediately followed by the note-off event of
\* the same key and channel 480 ticks later, so at most one note is sounding
\* at any point of the track and none at the end-of-track event.
C28_NotesReleased ==
    /\ \A i \in 1..Len(track) :
          track[i].msg = "NoteOn" =>
             /\ i < Len(track)
             /\ track[i + 1].msg = "NoteOff"
             /\ track[i + 1].data[1] = track[i].data[1]
             /\ track[i + 1].channel = track[i].channel
             /\ track[i + 1].delta = 480
    /\ \A n \in 0..Len(track) : Cardinality(Sounding(n)) <= 1
    /\ \A n \in 1..Len(track) :
          track[n].msg = "EndOfTrack" => Sounding(n) = {}

C28_Witness ==
    /\ tpc = "done"
    /\ slice = <<MidiAction_PlayNote(60), MidiAction_PlayNote(162)>>
    /\ Sounding(Len(add_beggining) + 1) = {<<0, 60>>}
    /\ Sounding(Len(add_beggining) + 3) = {<<0, 34>>}
    /\ Sounding(Len(track)) = {}

(***************************************************************************)
(* Specifications: one per component, and all together                     *)
(***************************************************************************)
\* the text compiler: Sheet::new, proccess_text, process
InitSheetOnly == InitSheet /\ IdleFold /\ IdleTrack /\ IdlePlay /\ IdleClock

SpecSheet == InitSheetOnly /\ [][NextSheet]_vars

\* the track encoder: MidiAction::as_track
InitTrackOnly == InitTrack /\ IdleSheet /\ IdleFold /\ IdlePlay /\ IdleClock

SpecTrack == InitTrackOnly /\ [][NextTrack]_vars

\* the playback: play_file
InitPlayOnly == InitPlay /\ IdleSheet /\ IdleFold /\ IdleTrack /\ IdleClock

SpecPlay == InitPlayOnly /\ [][NextPlay]_vars

\* map_substring_to_char alone
InitFoldOnly == InitFold /\ IdleTrack /\ IdlePlay /\ IdleClock

SpecFold == InitFoldOnly /\ [][NextFold]_vars

\* the clock alone
InitClockOnly ==
    /\ InitClock /\ IdleSheet /\ IdleFold /\ IdleTrack
    /\ file = [timing |-> as_track_timing, tracks |-> <<>>]
    /\ device = <<>> /\ buf = <<>> /\ waits = <<>>
    /\ epos = 0 /\ result = "none" /\ ppc = "idle"

SpecClock == InitClockOnly /\ [][NextClock]_vars

Init == InitSheetOnly \/ InitTrackOnly \/ InitPlayOnly \/ InitFoldOnly \/ InitClockOnly

Next == NextSheet \/ NextTrack \/ NextPlay \/ MapSubstringAgain \/ NextClock

Spec == Init /\ [][Next]_vars

====
